---------------------------- MODULE Spec2Model ----------------------------
(***************************************************************************)
(* SimpleFS: a read-only flat archive.  The builder (src/bin/builder.rs)   *)
(* serialises payloads into an image; the library (src/lib.rs) mounts an   *)
(* image held by a Storage backend and reads files through cursors.        *)
(*                                                                         *)
(* Integer widths.  The code uses u16, u32, u64 and usize.  The model      *)
(* keeps the byte layout of every record (a u16 is 2 bytes, a u32 4 bytes, *)
(* a u64 8 bytes, usize 4 or 8 bytes depending on the compilation target)  *)
(* and narrows the byte itself to ByteBits bits, so that every width keeps *)
(* its proportion to the others and the values stay small enough to        *)
(* enumerate.  All arithmetic of the code is done modulo the width of its  *)
(* type; an overflowing usize addition panics when the build has overflow  *)
(* checks (debug profile) and wraps when it has none (release profile).    *)
(***************************************************************************)
EXTENDS Integers, Sequences, FiniteSets, TLC

\* ------------------------------------------------------------------ bounds
ByteBits == 2
\* AddFile builds every list of at most MaxVaried payloads; longer lists, up
\* to one file more than the count field holds, are lists of empty payloads
MaxVaried == 2
\* directory entries written into the sample storages of InitFs
MaxEntries == 2
\* bytes of data region behind the directory of a sample storage
MaxData == 3

ByteBase == 2 ^ ByteBits
Byte == 0 .. (ByteBase - 1)
U16Mod == ByteBase ^ 2
U32Mod == ByteBase ^ 4
U16Max == U16Mod - 1
U32Max == U32Mod - 1

\* usize: 2^(8*size_of::<usize>()) with the narrowed byte
USizeMod(bytes) == ByteBase ^ bytes
\* isize::MAX, the largest allocation a Vec can hold
ISizeMax(bytes) == (USizeMod(bytes) \div 2) - 1

\* ---------------------------------------------------------------- codec
\* bytes::BufMut::put_u16 / put_u32 / put_u64: big-endian
put_u16(v) == << (v \div ByteBase) % ByteBase, v % ByteBase >>
put_u32(v) ==
  << (v \div (ByteBase ^ 3)) % ByteBase, (v \div (ByteBase ^ 2)) % ByteBase,
     (v \div ByteBase) % ByteBase, v % ByteBase >>
put_u64(v) ==
  [ i \in 1 .. 8 |-> (v \div (ByteBase ^ (8 - i))) % ByteBase ]

\* bytes::Buf::get_u16 / get_u32 / get_u64: big-endian
get_u16(b) == b[1] * ByteBase + b[2]
\* get_u32 reading the least significant byte first
get_u32_le(b) ==
  b[4] * (ByteBase ^ 3) + b[3] * (ByteBase ^ 2) + b[2] * ByteBase + b[1]
get_u32(b) ==
  b[1] * (ByteBase ^ 3) + b[2] * (ByteBase ^ 2) + b[3] * ByteBase + b[4]
RECURSIVE BigEndian(_)
BigEndian(b) ==
  IF b = << >> THEN 0
  ELSE BigEndian(SubSeq(b, 1, Len(b) - 1)) * ByteBase + b[Len(b)]
get_u64(b) == BigEndian(SubSeq(b, 1, 8))

\* size_of::<FilesystemHeader>() and size_of::<DirEntry>()
HEADER_SIZE == 10
DIRENTRY_SIZE == 8

\* "SimpleFS": the bytes of 0x53696d706c654653, each narrowed to a Byte
SIGNATURE_BYTES == << 83, 105, 109, 112, 108, 101, 70, 83 >>
SIGNATURE == BigEndian([ i \in 1 .. 8 |-> SIGNATURE_BYTES[i] % ByteBase ])

\* Option::None of the two decoders
None == [ some |-> FALSE ]

FilesystemHeader_to_bytes(h) == put_u64(h.signature) \o put_u16(h.num_files)
FilesystemHeader_from_bytes(reader) ==
  IF Len(reader) < HEADER_SIZE THEN None
  ELSE [ some |-> TRUE, signature |-> get_u64(SubSeq(reader, 1, 8)),
         num_files |-> get_u16(SubSeq(reader, 9, 10)) ]

DirEntry_to_bytes(d) == put_u32(d.offset) \o put_u32(d.length)
DirEntry_from_bytes(reader) ==
  IF Len(reader) < DIRENTRY_SIZE THEN None
  ELSE [ some |-> TRUE, offset |-> get_u32(SubSeq(reader, 1, 4)),
         length |-> get_u32(SubSeq(reader, 5, 8)) ]

\* -------------------------------------------------------------- builder
\* Result<T, E>: Ok(value), or Err(kind) with the backend's error inside
\* Error::Storage.  NoResult: the call was not made.
Ok(v) == [ set |-> TRUE, ok |-> TRUE, kind |-> "-", inner |-> "-", value |-> v ]
Err(kind, inner) ==
  [ set |-> TRUE, ok |-> FALSE, kind |-> kind, inner |-> inner, value |-> 0 ]
NoResult ==
  [ set |-> FALSE, ok |-> FALSE, kind |-> "-", inner |-> "-", value |-> 0 ]

RECURSIVE SumLen(_)
SumLen(files) ==
  IF files = << >> THEN 0 ELSE Len(Head(files)) + SumLen(Tail(files))

RECURSIVE Concat(_)
Concat(files) ==
  IF files = << >> THEN << >> ELSE Head(files) \o Concat(Tail(files))

\* WriteDirectory with the running offset never advanced
RECURSIVE WriteDirectory_stale_offset(_, _, _, _, _)
WriteDirectory_stale_offset(files, i, current_offset, writer, capacity) ==
  IF i > Len(files) THEN Ok(writer)
  ELSE IF current_offset > U32Max THEN Err("OutOfSpace", "-")
  ELSE IF Len(files[i]) > U32Max THEN Err("FileTooBig", "-")
  ELSE IF current_offset + Len(files[i]) > capacity THEN Err("OutOfSpace", "-")
  ELSE WriteDirectory_stale_offset(files, i + 1, current_offset,
         writer \o DirEntry_to_bytes([ offset |-> current_offset,
                                       length |-> Len(files[i]) ]),
         capacity)

\* WriteDirectory with the capacity checked before the length is converted
RECURSIVE WriteDirectory_capacity_first(_, _, _, _, _)
WriteDirectory_capacity_first(files, i, current_offset, writer, capacity) ==
  IF i > Len(files) THEN Ok(writer)
  ELSE IF current_offset > U32Max THEN Err("OutOfSpace", "-")
  ELSE IF current_offset + Len(files[i]) > capacity THEN Err("OutOfSpace", "-")
  ELSE IF Len(files[i]) > U32Max THEN Err("FileTooBig", "-")
  ELSE WriteDirectory_capacity_first(files, i + 1,
         current_offset + Len(files[i]),
         writer \o DirEntry_to_bytes([ offset |-> current_offset,
                                       length |-> Len(files[i]) ]),
         capacity)

\* the first loop of finalize, from file i on: the directory entries, or the
\* error of the first check that fails
RECURSIVE WriteDirectory(_, _, _, _, _)
WriteDirectory(files, i, current_offset, writer, capacity) ==
  IF i > Len(files) THEN Ok(writer)
  ELSE IF current_offset > U32Max THEN Err("OutOfSpace", "-")
  ELSE IF Len(files[i]) > U32Max THEN Err("FileTooBig", "-")
  ELSE IF current_offset + Len(files[i]) > capacity THEN Err("OutOfSpace", "-")
  ELSE WriteDirectory(files, i + 1, current_offset + Len(files[i]),
         writer \o DirEntry_to_bytes([ offset |-> current_offset,
                                       length |-> Len(files[i]) ]),
         capacity)

finalize(b) ==
  IF Len(b.files) > U16Max THEN Err("TooManyFiles", "-")
  ELSE
    LET dir_size == Len(b.files) * DIRENTRY_SIZE
        header == FilesystemHeader_to_bytes(
                    [ signature |-> SIGNATURE, num_files |-> Len(b.files) ])
        dir == WriteDirectory(b.files, 1, HEADER_SIZE + dir_size, header,
                              b.capacity)
    IN  IF dir.ok THEN Ok(dir.value \o Concat(b.files)) ELSE dir

\* ---------------------------------------------------------------- state
VARIABLES
  usize_bytes,      \* size_of::<usize>() of the compilation target: 4 or 8
  overflow_checks,  \* the build panics on integer overflow (debug profile)
  faulty,           \* the Storage backend may fail a read (medium failure)
  builder,          \* SimpleFsBuilder { capacity, files }
  image,            \* what finalize returned, NoResult before the call
  storage,          \* RamStorage { bytes }, "exists" false before it is made
  fs,               \* FileSystem { num_files }, "mounted" false without one
  mounted,          \* what mount returned, NoResult before the call
  file,             \* the File handle opened last, "open" false without one
  last,             \* the last call of mount, open or read and what it did
  hist,             \* per handle: index opened, bytes returned so far, flags
  panicked          \* the process aborted in a panic

vars ==
  << usize_bytes, overflow_checks, faulty, builder, image, storage, fs,
     mounted, file, last, hist, panicked >>

NoStorage == [ exists |-> FALSE, bytes |-> << >> ]
NoFs == [ mounted |-> FALSE, num_files |-> 0 ]
NoFile == [ open |-> FALSE, file_offset |-> 0, file_size |-> 0,
            read_position |-> 0 ]
NoReq == [ issued |-> FALSE, off |-> 0, len |-> 0 ]
Req(off, len) == [ issued |-> TRUE, off |-> off, len |-> len ]
NoCall == [ op |-> "none", arg |-> 0, result |-> NoResult, req |-> NoReq,
            pre |-> NoFile, buf |-> << >> ]
NoHist == [ index |-> 0, got |-> << >>, clean |-> TRUE, short |-> FALSE ]

\* usize addition: the wrapped value and whether it overflowed
UAdd(a, b) ==
  [ v |-> (a + b) % USizeMod(usize_bytes),
    ovf |-> (a + b) >= USizeMod(usize_bytes) ]

Min(a, b) == IF a <= b THEN a ELSE b

\* Storage::capacity of RamStorage
capacity == Len(storage.bytes)

\* Storage::read(off, buf) with len(buf) = n.  The backend is the RamStorage
\* of the tests; fault: the medium fails this read.  Outcomes: "ok" with the
\* bytes copied, "err" with the backend's error, "panic".
StorageRead(off, n, fault) ==
  LET end == UAdd(off, n) IN
  IF fault THEN [ kind |-> "err", inner |-> "IoError", data |-> << >> ]
  ELSE IF end.ovf /\ overflow_checks
    THEN [ kind |-> "panic", inner |-> "-", data |-> << >> ]
  ELSE IF end.v > capacity
    THEN [ kind |-> "err", inner |-> "OutOfBoundsAccess", data |-> << >> ]
  ELSE IF off > end.v
    THEN [ kind |-> "panic", inner |-> "-", data |-> << >> ]
  ELSE [ kind |-> "ok", inner |-> "-",
         data |-> SubSeq(storage.bytes, off + 1, end.v) ]

\* the outcome of one API call: its result, the storage read it issued, the
\* handle after it, the bytes it put in the caller's buffer, panic or not
Outcome(result, req, f, buf, panic) ==
  [ result |-> result, req |-> req, file |-> f, buf |-> buf, panic |-> panic ]

\* the call panicked after issuing req
Panic(req) == Outcome(NoResult, req, file, << >>, TRUE)

\* mount without the check that the directory fits the storage
mount_unchecked_directory(fault) ==
  IF capacity < HEADER_SIZE
  THEN Outcome(Err("CorruptedFileSystem", "-"), NoReq, file, << >>, FALSE)
  ELSE
    LET req == Req(0, HEADER_SIZE)
        r == StorageRead(0, HEADER_SIZE, fault)
        header == FilesystemHeader_from_bytes(r.data)
    IN  IF r.kind = "panic" THEN Panic(req)
        ELSE IF r.kind = "err"
          THEN Outcome(Err("Storage", r.inner), req, file, << >>, FALSE)
        ELSE IF ~header.some
          THEN Outcome(Err("CorruptedFileSystem", "-"), req, file, << >>, FALSE)
        ELSE IF header.signature # SIGNATURE
          THEN Outcome(Err("InvalidSignature", "-"), req, file, << >>, FALSE)
        ELSE Outcome(Ok(header.num_files), req, file, << >>, FALSE)

\* mount without the signature check
mount_unchecked_signature(fault) ==
  IF capacity < HEADER_SIZE
  THEN Outcome(Err("CorruptedFileSystem", "-"), NoReq, file, << >>, FALSE)
  ELSE
    LET req == Req(0, HEADER_SIZE)
        r == StorageRead(0, HEADER_SIZE, fault)
        header == FilesystemHeader_from_bytes(r.data)
    IN  IF r.kind = "panic" THEN Panic(req)
        ELSE IF r.kind = "err"
          THEN Outcome(Err("Storage", r.inner), req, file, << >>, FALSE)
        ELSE IF ~header.some
          THEN Outcome(Err("CorruptedFileSystem", "-"), req, file, << >>, FALSE)
        ELSE IF capacity < HEADER_SIZE + header.num_files * DIRENTRY_SIZE
          THEN Outcome(Err("CorruptedFileSystem", "-"), req, file, << >>, FALSE)
        ELSE Outcome(Ok(header.num_files), req, file, << >>, FALSE)

\* FileSystem::mount.  HEADER_SIZE + num_files * DIRENTRY_SIZE is at most
\* 10 + 8 * u16::MAX and overflows no usize.
mount(fault) ==
  IF capacity < HEADER_SIZE
  THEN Outcome(Err("CorruptedFileSystem", "-"), NoReq, file, << >>, FALSE)
  ELSE
    LET req == Req(0, HEADER_SIZE)
        r == StorageRead(0, HEADER_SIZE, fault)
        header == FilesystemHeader_from_bytes(r.data)
    IN  IF r.kind = "panic" THEN Panic(req)
        ELSE IF r.kind = "err"
          THEN Outcome(Err("Storage", r.inner), req, file, << >>, FALSE)
        ELSE IF ~header.some
          THEN Outcome(Err("CorruptedFileSystem", "-"), req, file, << >>, FALSE)
        ELSE IF header.signature # SIGNATURE
          THEN Outcome(Err("InvalidSignature", "-"), req, file, << >>, FALSE)
        ELSE IF capacity < HEADER_SIZE + header.num_files * DIRENTRY_SIZE
          THEN Outcome(Err("CorruptedFileSystem", "-"), req, file, << >>, FALSE)
        ELSE Outcome(Ok(header.num_files), req, file, << >>, FALSE)

\* File::new
File_new(direntry) ==
  [ open |-> TRUE, file_offset |-> direntry.offset,
    file_size |-> direntry.length, read_position |-> 0 ]

\* open with the index check off by one
open_off_by_one(index, fault) ==
  IF index > fs.num_files
  THEN Outcome(Err("InvalidFileIndex", "-"), NoReq, file, << >>, FALSE)
  ELSE
    LET off == HEADER_SIZE + index * DIRENTRY_SIZE
        req == Req(off, DIRENTRY_SIZE)
        r == StorageRead(off, DIRENTRY_SIZE, fault)
        direntry == DirEntry_from_bytes(r.data)
        end == UAdd(direntry.offset, direntry.length)
    IN  IF r.kind = "panic" THEN Panic(req)
        ELSE IF r.kind = "err"
          THEN Outcome(Err("Storage", r.inner), req, file, << >>, FALSE)
        ELSE IF ~direntry.some
          THEN Outcome(Err("CorruptedFileSystem", "-"), req, file, << >>, FALSE)
        ELSE IF end.ovf /\ overflow_checks THEN Panic(req)
        ELSE IF end.v > capacity
          THEN Outcome(Err("CorruptedFileSystem", "-"), req, file, << >>, FALSE)
        ELSE Outcome(Ok(index), req, File_new(direntry), << >>, FALSE)

\* FileSystem::open
open(index, fault) ==
  IF index >= fs.num_files
  THEN Outcome(Err("InvalidFileIndex", "-"), NoReq, file, << >>, FALSE)
  ELSE
    LET off == HEADER_SIZE + index * DIRENTRY_SIZE
        req == Req(off, DIRENTRY_SIZE)
        r == StorageRead(off, DIRENTRY_SIZE, fault)
        direntry == DirEntry_from_bytes(r.data)
        end == UAdd(direntry.offset, direntry.length)
    IN  IF r.kind = "panic" THEN Panic(req)
        ELSE IF r.kind = "err"
          THEN Outcome(Err("Storage", r.inner), req, file, << >>, FALSE)
        ELSE IF ~direntry.some
          THEN Outcome(Err("CorruptedFileSystem", "-"), req, file, << >>, FALSE)
        ELSE IF end.ovf /\ overflow_checks THEN Panic(req)
        ELSE IF end.v > capacity
          THEN Outcome(Err("CorruptedFileSystem", "-"), req, file, << >>, FALSE)
        ELSE Outcome(Ok(index), req, File_new(direntry), << >>, FALSE)

\* read that always starts at the beginning of the file
read_ignores_position(n, fault) ==
  LET max_read == file.file_size - file.read_position
      bytes_to_read == Min(n, max_read)
      req == Req(file.file_offset, bytes_to_read)
      r == StorageRead(file.file_offset, bytes_to_read, fault)
  IN  IF bytes_to_read > 0
      THEN IF r.kind = "panic" THEN Panic(req)
           ELSE IF r.kind = "err"
             THEN Outcome(Err("Storage", r.inner), req, file, << >>, FALSE)
           ELSE Outcome(Ok(bytes_to_read), req,
                  [ file EXCEPT !.read_position = @ + bytes_to_read ],
                  r.data, FALSE)
      ELSE Outcome(Ok(bytes_to_read), NoReq, file, << >>, FALSE)

\* read that advances the cursor before the storage read is known to succeed
read_advances_first(n, fault) ==
  LET max_read == file.file_size - file.read_position
      bytes_to_read == Min(n, max_read)
      off == UAdd(file.file_offset, file.read_position)
      req == Req(off.v, bytes_to_read)
      r == StorageRead(off.v, bytes_to_read, fault)
      advanced == [ file EXCEPT !.read_position = @ + bytes_to_read ]
  IN  IF bytes_to_read > 0
      THEN IF off.ovf /\ overflow_checks THEN Panic(NoReq)
           ELSE IF r.kind = "panic" THEN Panic(req)
           ELSE IF r.kind = "err"
             THEN Outcome(Err("Storage", r.inner), req, advanced, << >>, FALSE)
           ELSE Outcome(Ok(bytes_to_read), req, advanced, r.data, FALSE)
      ELSE Outcome(Ok(bytes_to_read), NoReq, file, << >>, FALSE)

\* File::read with a buffer of n bytes
read(n, fault) ==
  LET max_read == file.file_size - file.read_position
      bytes_to_read == Min(n, max_read)
      off == UAdd(file.file_offset, file.read_position)
      req == Req(off.v, bytes_to_read)
      r == StorageRead(off.v, bytes_to_read, fault)
  IN  IF bytes_to_read > 0
      THEN IF off.ovf /\ overflow_checks THEN Panic(NoReq)
           ELSE IF r.kind = "panic" THEN Panic(req)
           ELSE IF r.kind = "err"
             THEN Outcome(Err("Storage", r.inner), req, file, << >>, FALSE)
           ELSE Outcome(Ok(bytes_to_read), req,
                  [ file EXCEPT !.read_position = @ + bytes_to_read ],
                  r.data, FALSE)
      ELSE Outcome(Ok(bytes_to_read), NoReq, file, << >>, FALSE)

\* --------------------------------------------------------------- inputs
Pattern(len, seed) == [ i \in 1 .. len |-> (i + seed) % ByteBase ]

\* payloads handed to add_file: empty, one byte, a few bytes, the longest
\* that fits the length field, the shortest that does not
Payloads ==
  { << >>, Pattern(1, 0), Pattern(MaxData, 2), Pattern(U32Max, 0),
    Pattern(U32Mod, 1) }

\* capacities handed to SimpleFsBuilder::new
BuilderCaps ==
  { 0, HEADER_SIZE - 1, HEADER_SIZE + DIRENTRY_SIZE,
    HEADER_SIZE + MaxVaried * DIRENTRY_SIZE + MaxData + 1, 2 * U32Mod }

\* indexes handed to open
OpenIndexes == (0 .. (MaxEntries + 1)) \cup { U16Max, U16Mod }

\* buffer lengths handed to read on the current handle
BufLens ==
  { n \in { 0, 1, 2, file.file_size, file.file_size + 1 } :
      n <= ISizeMax(usize_bytes) }

Faults == IF faulty THEN BOOLEAN ELSE { FALSE }

\* sample storage contents: a header, MaxEntries directory entries and
\* MaxData bytes of data, cut to the storage's capacity
DataStart == HEADER_SIZE + MaxEntries * DIRENTRY_SIZE
FullCap == DataStart + MaxData
SampleCaps ==
  { 0, HEADER_SIZE - 1, HEADER_SIZE, HEADER_SIZE + DIRENTRY_SIZE - 1,
    HEADER_SIZE + DIRENTRY_SIZE, FullCap }
SampleSignatures == { SIGNATURE, SIGNATURE + 1 }
SampleCounts == (0 .. (MaxEntries + 1)) \cup { ByteBase, U16Max }
SampleOffsets == { 0, DataStart, FullCap, FullCap + 1, U32Max }
SampleLengths == { 0, 1, MaxData, MaxData + 1, U32Max }
SampleTails ==
  { [ offset |-> DataStart + 1, length |-> 1 ],
    [ offset |-> U32Max, length |-> 2 ] }
SampleBytes(sig, count, first, tail, cap) ==
  SubSeq(
    FilesystemHeader_to_bytes([ signature |-> sig, num_files |-> count ])
      \o DirEntry_to_bytes(first)
      \o Concat([ i \in 1 .. (MaxEntries - 1) |-> DirEntry_to_bytes(tail) ])
      \o Pattern(MaxData, 0),
    1, cap)

\* ------------------------------------------------------------------ Init
\* SimpleFsBuilder::new(capacity): nothing added, nothing built or mounted
Init ==
  /\ usize_bytes \in { 4, 8 }
  /\ overflow_checks \in BOOLEAN
  /\ faulty = FALSE
  /\ \E c \in BuilderCaps :
       /\ c < USizeMod(usize_bytes)
       /\ builder = [ capacity |-> c, files |-> << >> ]
  /\ image = NoResult
  /\ storage = NoStorage
  /\ fs = NoFs
  /\ mounted = NoResult
  /\ file = NoFile
  /\ last = NoCall
  /\ hist = NoHist
  /\ panicked = FALSE

\* a storage of any content, not built by this builder, on a backend whose
\* reads may fail
InitFs ==
  /\ usize_bytes \in { 4, 8 }
  /\ overflow_checks \in BOOLEAN
  /\ faulty = TRUE
  /\ builder = [ capacity |-> 0, files |-> << >> ]
  /\ image = NoResult
  /\ \E sig \in SampleSignatures, count \in SampleCounts,
        o \in SampleOffsets, l \in SampleLengths, tail \in SampleTails,
        cap \in SampleCaps :
       storage = [ exists |-> TRUE,
                   bytes |-> SampleBytes(sig, count,
                               [ offset |-> o, length |-> l ], tail, cap) ]
  /\ fs = NoFs
  /\ mounted = NoResult
  /\ file = NoFile
  /\ last = NoCall
  /\ hist = NoHist
  /\ panicked = FALSE

\* --------------------------------------------------------------- actions
\* SimpleFsBuilder::add_file.  The payloads of a builder share one address
\* space, so their lengths sum to at most isize::MAX.
AddFile ==
  /\ ~image.set
  /\ Len(builder.files) <= U16Max
  /\ \E data \in Payloads :
       /\ \/ Len(builder.files) < MaxVaried
          \/ /\ data = << >>
             /\ \A i \in 1 .. Len(builder.files) : builder.files[i] = << >>
       /\ SumLen(builder.files) + Len(data) <= ISizeMax(usize_bytes)
       /\ builder' = [ builder EXCEPT !.files = Append(@, data) ]
  /\ UNCHANGED << usize_bytes, overflow_checks, faulty, image, storage, fs,
                  mounted, file, last, hist, panicked >>

\* SimpleFsBuilder::finalize
Finalize ==
  /\ ~image.set
  /\ image' = finalize(builder)
  /\ UNCHANGED << usize_bytes, overflow_checks, faulty, builder, storage, fs,
                  mounted, file, last, hist, panicked >>

\* RamStorage::new(image_bytes): a storage that holds exactly the image
Flash ==
  /\ image.ok
  /\ ~storage.exists
  /\ storage' = [ exists |-> TRUE, bytes |-> image.value ]
  /\ UNCHANGED << usize_bytes, overflow_checks, faulty, builder, image, fs,
                  mounted, file, last, hist, panicked >>

Call(op, arg, o) ==
  [ op |-> op, arg |-> arg, result |-> o.result, req |-> o.req,
    pre |-> file, buf |-> o.buf ]

\* FileSystem::mount(storage)
Mount ==
  /\ ~panicked
  /\ storage.exists
  /\ ~mounted.set
  /\ \E fault \in Faults :
       LET o == mount(fault) IN
       /\ mounted' = o.result
       /\ fs' = IF o.result.ok
                THEN [ mounted |-> TRUE, num_files |-> o.result.value ]
                ELSE fs
       /\ last' = Call("mount", 0, o)
       /\ panicked' = o.panic
  /\ UNCHANGED << usize_bytes, overflow_checks, faulty, builder, image,
                  storage, file, hist >>

\* fs.open(index)
Open ==
  /\ ~panicked
  /\ fs.mounted
  /\ \E index \in OpenIndexes, fault \in Faults :
       LET o == open(index, fault) IN
       /\ file' = o.file
       /\ hist' = IF o.result.ok THEN [ NoHist EXCEPT !.index = index ]
                  ELSE hist
       /\ last' = Call("open", index, o)
       /\ panicked' = o.panic
  /\ UNCHANGED << usize_bytes, overflow_checks, faulty, builder, image,
                  storage, fs, mounted >>

\* file.read(buf) for the buffer lengths in lens
ReadWith(lens) ==
  /\ ~panicked
  /\ file.open
  /\ \E n \in lens, fault \in Faults :
       LET o == read(n, fault) IN
       /\ file' = o.file
       /\ hist' = [ hist EXCEPT
                      !.got = @ \o o.buf,
                      !.clean = @ /\ o.result.ok,
                      !.short = @ \/ (o.result.ok /\ n > 0
                                       /\ o.result.value < n) ]
       /\ last' = Call("read", n, o)
       /\ panicked' = o.panic
  /\ UNCHANGED << usize_bytes, overflow_checks, faulty, builder, image,
                  storage, fs, mounted >>

Read == ReadWith(BufLens)

\* read_full_file of the tests: one read of total_size() bytes on a handle
\* that has read nothing yet
ReadFull ==
  /\ file.read_position = 0
  /\ ReadWith({ file.file_size })

Next == AddFile \/ Finalize \/ Flash \/ Mount \/ Open \/ ReadFull
Spec == Init /\ [][Next]_vars

NextFs == Mount \/ Open \/ Read
SpecFs == InitFs /\ [][NextFs]_vars

\* ------------------------------------------------- what the claims use
\* the image bytes of the signature constant, as the format documents them
SignatureImage == [ i \in 1 .. 8 |-> SIGNATURE_BYTES[i] % ByteBase ]

\* the payloads added, in insertion order, and their number
Added == builder.files
NumAdded == Len(builder.files)

\* 10 + 8*N + the lengths of the first k payloads
DataOffset(k) ==
  HEADER_SIZE + DIRENTRY_SIZE * NumAdded + SumLen(SubSeq(Added, 1, k))

\* the file count a storage of at least 10 bytes declares at bytes 8..10
DeclaredCount == storage.bytes[9] * ByteBase + storage.bytes[10]
SignatureMatches == SubSeq(storage.bytes, 1, 8) = SignatureImage
DirectoryFits ==
  capacity >= HEADER_SIZE + DIRENTRY_SIZE * DeclaredCount

\* ------------------------------------------------------------------- C1
\* C1 (round trip): when finalize returned an image and a storage holds
\* exactly it, mount succeeds and reports the number of payloads added; every
\* open of an index below that number succeeds with total_size() the length
\* of that payload; one read of total_size() bytes on the fresh handle
\* returns total_size() and fills the buffer with the payload.
C1_RoundTrip ==
  /\ (storage.exists /\ last.op # "none") =>
       /\ ~panicked
       /\ mounted.ok
       /\ fs.mounted
       /\ fs.num_files = NumAdded
  /\ (last.op = "open" /\ last.arg < NumAdded) =>
       /\ last.result.ok
       /\ file.open
       /\ file.file_size = Len(Added[last.arg + 1])
       /\ file.read_position = 0
  /\ last.op = "read" =>
       /\ last.arg = file.file_size
       /\ last.result = Ok(file.file_size)
       /\ last.buf = Added[hist.index + 1]

\* the second of two non-empty payloads has been read back in full
C1_Witness ==
  /\ last.op = "read"
  /\ last.result.ok
  /\ NumAdded = 2
  /\ hist.index = 1
  /\ Len(Added[1]) > 0
  /\ Len(last.buf) > 1
  /\ last.buf = Added[2]

\* ------------------------------------------------------------------- C2
\* C2 (in-bounds storage access): every Storage::read(off, buf) that mount,
\* open or File::read issues has off <= capacity and
\* len(buf) <= capacity - off, whatever the storage holds.
C2_InBoundsAccess ==
  last.req.issued =>
    /\ last.req.off <= capacity
    /\ last.req.len <= capacity - last.req.off

\* ------------------------------------------------------------------- C3
\* C3 (builder capacity bound): an image that finalize returns is never
\* longer than the configured capacity, and finalize fails with OutOfSpace
\* whenever the file count and the payload lengths fit their fields and
\* header + directory + payloads exceed the capacity.
C3_CapacityBound ==
  /\ image.ok => Len(image.value) <= builder.capacity
  /\ ( /\ image.set
       /\ NumAdded <= U16Max
       /\ \A i \in 1 .. NumAdded : Len(Added[i]) <= U32Max
       /\ DataOffset(NumAdded) > builder.capacity )
     => image = Err("OutOfSpace", "-")

\* ------------------------------------------------------------------- C4
\* C4 (image layout): an image that finalize returns for N payloads is the
\* 10-byte header (signature, count N), N directory entries in insertion
\* order and the payloads in insertion order; entry i holds the length of
\* payload i and the offset 10 + 8*N + the lengths of the payloads before
\* it, payload i lies at exactly that range, and the image is
\* 10 + 8*N + the sum of the lengths long.
C4_ImageLayout ==
  image.ok =>
    LET img == image.value
        entry(i) == HEADER_SIZE + DIRENTRY_SIZE * (i - 1)
    IN  /\ Len(img) = DataOffset(NumAdded)
        /\ SubSeq(img, 1, 8) = SignatureImage
        /\ BigEndian(SubSeq(img, 9, 10)) = NumAdded
        /\ \A i \in 1 .. NumAdded :
             /\ BigEndian(SubSeq(img, entry(i) + 1, entry(i) + 4))
                  = DataOffset(i - 1)
             /\ BigEndian(SubSeq(img, entry(i) + 5, entry(i) + 8))
                  = Len(Added[i])
             /\ SubSeq(img, DataOffset(i - 1) + 1, DataOffset(i)) = Added[i]

\* an image of two different non-empty payloads was built
C4_Witness ==
  /\ image.ok
  /\ NumAdded = 2
  /\ Len(Added[1]) > 0
  /\ Len(Added[2]) > 0
  /\ Added[1] # Added[2]

\* ------------------------------------------------------------------- C5
\* C5 (sequential read cursor): read_position stays within 0..file_size and
\* no read moves it back; on a handle whose storage reads all succeeded,
\* each read returns min(len(buffer), file_size - read_position), fills the
\* buffer with that many bytes of the storage starting at
\* file_offset + read_position and advances by that count; the bytes
\* returned so far are the file's bytes in order; once a read returned fewer
\* bytes than a non-empty buffer holds the counts sum to total_size(); a
\* read at read_position = file_size returns Ok(0) and issues no storage
\* read.
C5_SequentialRead ==
  /\ file.open => file.read_position \in 0 .. file.file_size
  /\ last.op = "read" => file.read_position >= last.pre.read_position
  /\ (last.op = "read" /\ hist.clean) =>
       LET pre == last.pre
           start == pre.file_offset + pre.read_position
           n == Min(last.arg, pre.file_size - pre.read_position)
       IN  /\ last.result = Ok(n)
           /\ file.read_position = pre.read_position + n
           /\ n > 0 => last.req = Req(start, n)
           /\ n > 0 => last.buf = SubSeq(storage.bytes, start + 1, start + n)
           /\ n = 0 => last.buf = << >>
           /\ pre.read_position = pre.file_size =>
                (last.result = Ok(0) /\ ~last.req.issued)
           /\ Len(hist.got) = file.read_position
           /\ file.read_position > 0 =>
                hist.got = SubSeq(storage.bytes, file.file_offset + 1,
                                  file.file_offset + file.read_position)
           /\ hist.short => Len(hist.got) = file.file_size

\* a file of several bytes was read in more than one piece and the last read
\* came back short
C5_Witness ==
  /\ last.op = "read"
  /\ hist.clean
  /\ hist.short
  /\ file.file_size > 1
  /\ last.pre.read_position = file.file_size - 1
  /\ last.arg = 2
  /\ last.result = Ok(1)
  /\ Len(hist.got) = file.file_size

\* ------------------------------------------------------------------- C6
\* C6 as stated (mount rejects an over-declared directory): whenever the
\* header declares more directory entries than the storage can hold, mount
\* fails with CorruptedFileSystem (the header read itself having succeeded).
C6_OverDeclaredIsCorrupted ==
  ( /\ mounted.set
    /\ mounted.kind # "Storage"
    /\ capacity >= HEADER_SIZE
    /\ ~DirectoryFits )
  => mounted = Err("CorruptedFileSystem", "-")

\* C6 as amended: whenever the header declares more directory entries than
\* the storage can hold, mount fails and yields no filesystem; unless the
\* header read failed (Error::Storage), the error is CorruptedFileSystem
\* when the signature matches and InvalidSignature when it does not.
C6_OverDeclaredIsRejected ==
  ( /\ mounted.set
    /\ capacity >= HEADER_SIZE
    /\ ~DirectoryFits )
  => /\ ~mounted.ok
     /\ ~fs.mounted
     /\ mounted.kind \in { "Storage", "CorruptedFileSystem", "InvalidSignature" }
     /\ mounted.kind # "Storage" =>
          mounted.kind = IF SignatureMatches THEN "CorruptedFileSystem"
                         ELSE "InvalidSignature"

\* a storage with the right signature and a directory that does not fit was
\* refused as corrupted
C6_Witness ==
  /\ mounted = Err("CorruptedFileSystem", "-")
  /\ capacity >= HEADER_SIZE + DIRENTRY_SIZE
  /\ SignatureMatches
  /\ ~DirectoryFits

\* ------------------------------------------------------------------- C7
\* C7 (mount is all-or-nothing): mount returns a filesystem only if the
\* storage has at least 10 bytes, its first 8 bytes are the signature and it
\* can hold the header and the declared directory; then get_num_files() is
\* the big-endian count of bytes 8..10, and stays so through every open and
\* read.  Otherwise mount returns CorruptedFileSystem, InvalidSignature or
\* Storage and no filesystem exists.
C7_MountAllOrNothing ==
  /\ ~mounted.set => ~fs.mounted
  /\ (mounted.set /\ mounted.ok) =>
       /\ capacity >= HEADER_SIZE
       /\ SignatureMatches
       /\ DirectoryFits
       /\ fs.mounted
       /\ fs.num_files = DeclaredCount
       /\ mounted.value = DeclaredCount
  /\ (mounted.set /\ ~mounted.ok) =>
       /\ ~fs.mounted
       /\ ~file.open
       /\ mounted.kind \in
            { "CorruptedFileSystem", "InvalidSignature", "Storage" }

\* a filesystem of several files is still mounted after a file was read
C7_Witness ==
  /\ mounted.ok
  /\ fs.num_files = MaxEntries
  /\ last.op = "read"
  /\ last.result.ok
  /\ file.read_position > 0

\* ------------------------------------------------------------------- C8
\* C8 (index bounds): on a filesystem of N files, open(index) with
\* index >= N fails with InvalidFileIndex and issues no storage read; with
\* index < N it never fails with InvalidFileIndex.
C8_IndexBounds ==
  last.op = "open" =>
    /\ last.arg >= fs.num_files =>
         (last.result = Err("InvalidFileIndex", "-") /\ ~last.req.issued)
    /\ last.arg < fs.num_files => last.result.kind # "InvalidFileIndex"

\* open(N) was refused on a filesystem of N > 0 files
C8_Witness ==
  /\ last.op = "open"
  /\ fs.num_files > 0
  /\ last.arg = fs.num_files
  /\ last.result = Err("InvalidFileIndex", "-")

\* ------------------------------------------------------------------- C9
\* C9 as stated (FileTooBig reporting): when the file count fits its field
\* and some payload is too long for the 32-bit length field, finalize fails
\* with FileTooBig, whatever the capacity and the other payloads.
C9_OversizedIsFileTooBig ==
  ( /\ image.set
    /\ NumAdded <= U16Max
    /\ \E i \in 1 .. NumAdded : Len(Added[i]) > U32Max )
  => image = Err("FileTooBig", "-")

\* the first payload that is too long for the length field
FirstOversized ==
  CHOOSE k \in 1 .. NumAdded :
    /\ Len(Added[k]) > U32Max
    /\ \A j \in 1 .. (k - 1) : Len(Added[j]) <= U32Max

\* C9 as amended: under the same condition finalize returns no image; it
\* fails with FileTooBig when the offset of the first oversized payload fits
\* the 32-bit offset field and every payload before it ends within the
\* capacity, and with OutOfSpace otherwise.
C9_OversizedIsRejected ==
  ( /\ image.set
    /\ NumAdded <= U16Max
    /\ \E i \in 1 .. NumAdded : Len(Added[i]) > U32Max )
  => image =
       IF /\ DataOffset(FirstOversized - 1) <= U32Max
          /\ \A j \in 1 .. (FirstOversized - 1) :
               DataOffset(j) <= builder.capacity
       THEN Err("FileTooBig", "-")
       ELSE Err("OutOfSpace", "-")

\* an oversized payload behind a small one was reported as FileTooBig
C9_Witness ==
  /\ image = Err("FileTooBig", "-")
  /\ NumAdded = 2
  /\ Len(Added[1]) > 0
  /\ Len(Added[2]) > U32Max

\* ------------------------------------------------------------------ C10
\* C10 (a failed read leaves the cursor unchanged): when the storage read of
\* File::read fails, read returns Error::Storage with the backend's error,
\* the handle is as it was before the call, and a read with the same buffer
\* length requests the same storage range again; read_position moves only
\* in a read whose storage read succeeded.
C10_FailedReadKeepsCursor ==
  /\ (last.op = "read" /\ last.result.set /\ ~last.result.ok) =>
       /\ last.result.kind = "Storage"
       /\ last.result.inner \in { "IoError", "OutOfBoundsAccess" }
       /\ last.req.issued
       /\ file = last.pre
       /\ read(last.arg, FALSE).req = last.req
       /\ read(last.arg, TRUE).req = last.req
  /\ (last.op = "read" /\ file.read_position # last.pre.read_position) =>
       /\ last.result.ok
       /\ last.req.issued

\* a read failed in the middle of a file
C10_Witness ==
  /\ last.op = "read"
  /\ last.result = Err("Storage", "IoError")
  /\ last.pre.read_position > 0
  /\ last.pre.read_position < last.pre.file_size

=============================================================================
